---- MODULE Spec2Model ----
(***************************************************************************)
(* A model of jraynolds/Othello: the rule engine and negamax search of     *)
(* othelloplayer.py (class Othello, class ComputerPlayer).                 *)
(*                                                                         *)
(* A board is a sequence of rows, each a sequence of cells 0 (Empty),      *)
(* 1 (White) or 2 (Black).  Python's board[y][x] is board[y + 1][x + 1]    *)
(* here; a location is the pair <<x, y>> with the 0-based coordinates of   *)
(* the source, so location[0] is loc[1] and location[1] is loc[2].         *)
(***************************************************************************)
EXTENDS Integers, Sequences, FiniteSets, TLC

(***************************************************************************)
(* Bounds of the model.                                                    *)
(***************************************************************************)
\* The width of the boards explored.  The program's default is 8
\* (App.__init__, grid_size = 8); 4 is the smallest even width that has
\* interior, edge and corner cells and rays holding runs of two discs.
Width == 4

\* The boards explored differ from a base board (the empty grid, the start
\* position, a grid filled by one player) in at most MaxEdits cells.
MaxEdits == 2

\* The search is run with at most MaxPlies plies.
MaxPlies == 3

\* App.__init__: grid_size = 8.
DefaultGridSize == 8

\* Othello is constructed with a width of at most MaxWidth, or with a grid
\* of at most MaxGridWidth rows and columns.
MaxWidth == 8
MaxGridWidth == 2

\* negamax is called with a window other than the full one at a depth of at
\* most MaxWindowDepth.
MaxWindowDepth == 1

\* The boards searched hold discs in columns of alternating colour outside
\* their first FreeCells cells (in scan order), which hold anything.
FreeCells == 4

Players == {1, 2}
Cells == {0, 1, 2}

Max(i, j) == IF i >= j THEN i ELSE j

(***************************************************************************)
(* get_location_type (othelloplayer.py 3-16)                               *)
(***************************************************************************)
get_location_type(location, board_width) ==
    LET corners == {0, board_width - 1}
    IN  IF location[1] \in corners /\ location[2] \in corners THEN 3
        ELSE IF location[1] \in corners \/ location[2] \in corners THEN 2
        ELSE 1

(***************************************************************************)
(* Othello.__init__ (othelloplayer.py 27-47)                               *)
(***************************************************************************)
\* self.board = [[x for x in row] for row in board]: a new grid, cell by cell.
CopyBoard(b) == [r \in 1..Len(b) |-> [c \in 1..Len(b[r]) |-> b[r][c]]]

\* A start position whose centre block lies one cell further down and right.
StartBoardOffCentre(width) ==
    LET mtl == width \div 2
    IN  [r \in 1..width |-> [c \in 1..width |->
            IF (r - 1 = mtl /\ c - 1 = mtl) \/ (r - 1 = mtl + 1 /\ c - 1 = mtl + 1)
            THEN 1
            ELSE IF (r - 1 = mtl + 1 /\ c - 1 = mtl) \/ (r - 1 = mtl /\ c - 1 = mtl + 1)
            THEN 2
            ELSE 0]]

\* Othello(None, width): the start position.
StartBoard(width) ==
    LET mtl == (width \div 2) - 1
    IN  [r \in 1..width |-> [c \in 1..width |->
            IF (r - 1 = mtl /\ c - 1 = mtl) \/ (r - 1 = mtl + 1 /\ c - 1 = mtl + 1)
            THEN 1
            ELSE IF (r - 1 = mtl + 1 /\ c - 1 = mtl) \/ (r - 1 = mtl /\ c - 1 = mtl + 1)
            THEN 2
            ELSE 0]]

\* width = None, as an integer no width equals.
NoWidth == -1

\* A constructor that tests the width before it looks at the board.
Othello_init_width_first(board_arg, width) ==
    IF board_arg = <<>> /\ width = NoWidth
    THEN [raised |-> "AssertionError", board |-> <<>>]
    ELSE IF width # NoWidth /\ width % 2 # 0
    THEN [raised |-> "AssertionError", board |-> <<>>]
    ELSE IF board_arg # <<>> /\ board_arg[1] # <<>>
    THEN [raised |-> "ok", board |-> CopyBoard(board_arg[1])]
    ELSE IF width = NoWidth
    THEN [raised |-> "AssertionError", board |-> <<>>]
    ELSE IF width = 0
    THEN [raised |-> "IndexError", board |-> <<>>]
    ELSE [raised |-> "ok", board |-> StartBoard(width)]

\* Othello(board, width): what it raises ("ok" when nothing) and self.board.
\* board_arg is <<>> for None and <<grid>> for a grid; "if board" holds of
\* a grid with a row.  With width 0 line 44 indexes an empty list.
Othello_init(board_arg, width) ==
    IF board_arg = <<>> /\ width = NoWidth
    THEN [raised |-> "AssertionError", board |-> <<>>]
    ELSE IF board_arg # <<>> /\ board_arg[1] # <<>>
    THEN [raised |-> "ok", board |-> CopyBoard(board_arg[1])]
    ELSE IF width = NoWidth
    THEN [raised |-> "AssertionError", board |-> <<>>]
    ELSE IF width % 2 # 0
    THEN [raised |-> "AssertionError", board |-> <<>>]
    ELSE IF width = 0
    THEN [raised |-> "IndexError", board |-> <<>>]
    ELSE [raised |-> "ok", board |-> StartBoard(width)]

(***************************************************************************)
(* Othello.is_on_board (othelloplayer.py 99-103)                           *)
(***************************************************************************)
is_on_board(b, location) ==
    /\ location[1] >= 0
    /\ location[2] >= 0
    /\ location[2] + 1 <= Len(b)
    /\ location[1] + 1 <= Len(b[1])

\* self.board[location[1]][location[0]]
CellAt(b, location) == b[location[2] + 1][location[1] + 1]

\* self.board[location[1]][location[0]] = v
SetCell(b, location, v) ==
    [b EXCEPT ![location[2] + 1][location[1] + 1] = v]

(***************************************************************************)
(* Othello.get_flipped (othelloplayer.py 105-134)                          *)
(***************************************************************************)
\* range(-1, 2) x range(-1, 2), x outermost: the centre offset is included.
Offsets ==
    << <<-1, -1>>, <<-1, 0>>, <<-1, 1>>,
       << 0, -1>>, << 0, 0>>, << 0, 1>>,
       << 1, -1>>, << 1, 0>>, << 1, 1>> >>

\* The while(True) loop of one direction, from temp_loc with flip collected
\* so far.  ended is FALSE when the loop never leaves: with the offset (0, 0)
\* temp_loc does not move, so on an opposing disc the loop appends forever.
RECURSIVE WalkFrom(_, _, _, _, _)
WalkFrom(b, temp_loc, d, player, flip) ==
    IF ~is_on_board(b, temp_loc) THEN [ended |-> TRUE, flip |-> <<>>]
    ELSE LET tile == CellAt(b, temp_loc)
         IN  IF tile = 0 THEN [ended |-> TRUE, flip |-> <<>>]
             ELSE IF tile = player THEN [ended |-> TRUE, flip |-> flip]
             ELSE IF d = <<0, 0>> THEN [ended |-> FALSE, flip |-> <<>>]
             ELSE WalkFrom(b, <<temp_loc[1] + d[1], temp_loc[2] + d[2]>>, d,
                           player, Append(flip, temp_loc))

\* A walk that keeps what it collected when it runs into an Empty cell.
RECURSIVE WalkFromKeeping(_, _, _, _, _)
WalkFromKeeping(b, temp_loc, d, player, flip) ==
    IF ~is_on_board(b, temp_loc) THEN [ended |-> TRUE, flip |-> <<>>]
    ELSE LET tile == CellAt(b, temp_loc)
         IN  IF tile = 0 THEN [ended |-> TRUE, flip |-> flip]
             ELSE IF tile = player THEN [ended |-> TRUE, flip |-> flip]
             ELSE IF d = <<0, 0>> THEN [ended |-> FALSE, flip |-> <<>>]
             ELSE WalkFromKeeping(b, <<temp_loc[1] + d[1], temp_loc[2] + d[2]>>, d,
                                  player, Append(flip, temp_loc))

WalkKeepingOnEmpty(b, location, d, player) ==
    WalkFromKeeping(b, <<location[1] + d[1], location[2] + d[2]>>, d, player, <<>>)

Walk(b, location, d, player) ==
    WalkFrom(b, <<location[1] + d[1], location[2] + d[2]>>, d, player, <<>>)

\* The two for loops, from the i-th offset on, with flipped collected so far.
RECURSIVE FlippedFrom(_, _, _, _, _)
FlippedFrom(b, location, player, i, flipped) ==
    IF i > Len(Offsets) THEN [returns |-> TRUE, flipped |-> flipped]
    ELSE LET w == Walk(b, location, Offsets[i], player)
         IN  IF ~w.ended THEN [returns |-> FALSE, flipped |-> <<>>]
             ELSE FlippedFrom(b, location, player, i + 1, flipped \o w.flip)

get_flipped_run(b, location, player) == FlippedFrom(b, location, player, 1, <<>>)

\* The list get_flipped returns (where it returns).
get_flipped(b, location, player) == get_flipped_run(b, location, player).flipped

(***************************************************************************)
(* Othello.play_move (othelloplayer.py 49-59)                              *)
(***************************************************************************)
RECURSIVE FlipAll(_, _, _, _)
FlipAll(b, flipped, i, player) ==
    IF i > Len(flipped) THEN b
    ELSE FlipAll(SetCell(b, flipped[i], player), flipped, i + 1, player)

\* A play_move that places the disc and flips only the first captured disc.
play_move_first_flip(b, location, player) ==
    LET placed == SetCell(b, location, player)
        flipped == get_flipped(placed, location, player)
    IN  IF flipped = <<>> THEN placed ELSE SetCell(placed, flipped[1], player)

\* A play_move that flips the captured discs and places none.
play_move_no_disc(b, location, player) ==
    FlipAll(b, get_flipped(SetCell(b, location, player), location, player), 1, player)

play_move(b, location, player) ==
    LET placed == SetCell(b, location, player)
    IN  FlipAll(placed, get_flipped(placed, location, player), 1, player)

(***************************************************************************)
(* Othello._get_available_moves (othelloplayer.py 83-97)                   *)
(***************************************************************************)
\* The scan for y in range(len(board)): for x in range(len(board[0])), from
\* the i-th cell on (i = y * width + x).
RECURSIVE ScanMoves(_, _, _, _)
ScanMoves(b, player, i, available) ==
    IF i >= Len(b) * Len(b[1]) THEN available
    ELSE LET x == i % Len(b[1])
             y == i \div Len(b[1])
         IN  ScanMoves(b, player, i + 1,
                 IF b[y + 1][x + 1] = 0 /\ get_flipped(b, <<x, y>>, player) # <<>>
                 THEN Append(available, <<x, y>>)
                 ELSE available)

\* A scan with x outermost (column-major).
RECURSIVE ScanMovesByColumn(_, _, _, _)
ScanMovesByColumn(b, player, i, available) ==
    IF i >= Len(b) * Len(b[1]) THEN available
    ELSE LET x == i \div Len(b)
             y == i % Len(b)
         IN  ScanMovesByColumn(b, player, i + 1,
                 IF b[y + 1][x + 1] = 0 /\ get_flipped(b, <<x, y>>, player) # <<>>
                 THEN Append(available, <<x, y>>)
                 ELSE available)

get_available_moves_by_column(b, player) == ScanMovesByColumn(b, player, 0, <<>>)

\* A scan that lists the moves of the other player.
get_available_moves_of_opponent(b, player) ==
    ScanMoves(b, IF player = 1 THEN 2 ELSE 1, 0, <<>>)

get_available_moves(b, player) == ScanMoves(b, player, 0, <<>>)

(***************************************************************************)
(* Othello.get_state_value (othelloplayer.py 150-161)                      *)
(***************************************************************************)
RECURSIVE CountFrom(_, _, _, _)
CountFrom(b, player, i, value) ==
    IF i >= Len(b) * Len(b[1]) THEN value
    ELSE CountFrom(b, player, i + 1,
             IF b[(i \div Len(b[1])) + 1][(i % Len(b[1])) + 1] = player
             THEN value + 1 ELSE value)

get_state_value(b, player) == CountFrom(b, player, 0, 0)

(***************************************************************************)
(* Othello._is_state_terminal (othelloplayer.py 163-178)                   *)
(***************************************************************************)
\* A terminal test that stops as soon as one player has no move.
is_state_terminal_either(b) ==
    IF get_state_value(b, 0) = 0 THEN TRUE
    ELSE IF get_available_moves(b, 1) = <<>> THEN TRUE
    ELSE IF get_available_moves(b, 2) = <<>> THEN TRUE
    ELSE FALSE

is_state_terminal(b) ==
    IF get_state_value(b, 0) = 0 THEN TRUE
    ELSE IF get_available_moves(b, 1) # <<>> THEN FALSE
    ELSE IF get_available_moves(b, 2) # <<>> THEN FALSE
    ELSE TRUE

(***************************************************************************)
(* Objects.  Every Othello instance owns one grid, self.board; the heap is *)
(* the sequence of the grids that exist and an instance is the index of    *)
(* its grid.  Othello(board) allocates a new grid holding a copy.          *)
(***************************************************************************)
\* self.board = board: the new instance shares the grid it was given.
NewAliased(h, src) == [heap |-> h, ref |-> src]

\* Othello(board) (othelloplayer.py 36-37)
New(h, src) == [heap |-> Append(h, CopyBoard(h[src])), ref |-> Len(h) + 1]

\* instance.play_move(location, player)
PlayMoveOn(h, ref, location, player) ==
    [h EXCEPT ![ref] = play_move(h[ref], location, player)]

(***************************************************************************)
(* Othello.get_children (othelloplayer.py 136-148)                         *)
(***************************************************************************)
\* The loop over moves from the i-th on.  intact records that no play_move
\* on a child has changed the parent's grid or an earlier child's.
RECURSIVE BuildChildren(_, _, _, _, _, _, _)
BuildChildren(h, ref, moves, i, player, children, intact) ==
    IF i > Len(moves)
    THEN [heap |-> h, children |-> children, intact |-> intact]
    ELSE LET n == New(h, ref)
             h2 == PlayMoveOn(n.heap, n.ref, moves[i], player)
             kept == \A r \in {ref} \cup {children[j] : j \in 1..Len(children)} :
                        h2[r] = h[r]
         IN  BuildChildren(h2, ref, moves, i + 1, player,
                           Append(children, n.ref), intact /\ kept)

\* A get_children that plays the moves of player with the other player's
\* discs.
get_children_other_discs(h, ref, player) ==
    BuildChildren(h, ref, get_available_moves(h[ref], player), 1,
                  IF player = 1 THEN 2 ELSE 1, <<>>, TRUE)

get_children(h, ref, player) ==
    BuildChildren(h, ref, get_available_moves(h[ref], player), 1, player, <<>>, TRUE)

(***************************************************************************)
(* Othello.negamax (othelloplayer.py 204-229)                              *)
(***************************************************************************)
\* float("inf"): above every disc count.
Inf == 1000

\* players = {1:2, 2:1}
OtherPlayer(player) == IF player = 1 THEN 2 ELSE 1

\* The window handed to a child with its ends negated and not swapped.
ChildWindowUnswapped(a, b) == <<-a, -b>>

\* The window handed to a child: negamax(..., -b, -a, ...)
ChildWindow(a, b) == <<-b, -a>>

\* A loop body that tests the cutoff before it counts the child's value.
VisitChildCutFirst(best, a, b, value, isPruning) ==
    IF isPruning /\ Max(a, value) >= b
    THEN [best |-> best, a |-> Max(a, value), cut |-> TRUE]
    ELSE [best |-> Max(best, value),
          a |-> IF isPruning THEN Max(a, value) ELSE a,
          cut |-> FALSE]

\* The body of the loop over children, after the child's value is known.
VisitChild(best, a, b, value, isPruning) ==
    [best |-> Max(best, value),
     a |-> IF isPruning THEN Max(a, value) ELSE a,
     cut |-> isPruning /\ Max(a, value) >= b]

\* negamax returns a set of runs, one per outcome of random.shuffle: the
\* value returned, the heap left behind (the grids that existed at the call),
\* whether every grid that existed stayed as it was, and whether a break
\* left a child unvisited.  The loop over the shuffled children visits, at
\* each turn, any child not visited yet.  seen is <<intact, pruned>> so far.
\* made counts the grids that the call's own get_children allocated.
RECURSIVE negamax(_, _, _, _, _, _, _)
RECURSIVE VisitChildren(_, _, _, _, _, _, _, _, _, _)
VisitChildren(h, children, remaining, player, depth, best, a, b, isPruning, seen) ==
    IF remaining = {}
    THEN {[val |-> -best, heap |-> h, intact |-> seen[1], pruned |-> seen[2]]}
    ELSE UNION {
           UNION {
             LET st == VisitChild(best, a, b, r.val, isPruning)
             IN  IF st.cut
                 THEN {[val |-> -st.best, heap |-> r.heap,
                        intact |-> seen[1] /\ r.intact,
                        pruned |-> seen[2] \/ r.pruned \/ remaining # {i}]}
                 ELSE VisitChildren(r.heap, children, remaining \ {i}, player,
                                    depth, st.best, st.a, b, isPruning,
                                    <<seen[1] /\ r.intact, seen[2] \/ r.pruned>>)
             : r \in negamax(h, children[i], OtherPlayer(player), depth - 1,
                             ChildWindow(a, b)[1], ChildWindow(a, b)[2], isPruning)}
           : i \in remaining}

\* A negamax that stops at depth 0 only.
negamax_depth_only(h, ref, player, depth, a, b, isPruning) ==
    IF depth = 0
    THEN {[val |-> get_state_value(h[ref], player), heap |-> h, intact |-> TRUE,
           pruned |-> FALSE, made |-> 0]}
    ELSE LET gc == get_children(h, ref, OtherPlayer(player))
         IN  {[val |-> r.val,
               heap |-> SubSeq(r.heap, 1, Len(h)),
               intact |-> r.intact /\ SubSeq(r.heap, 1, Len(h)) = h,
               pruned |-> r.pruned,
               made |-> Len(gc.heap) - Len(h)]
              : r \in VisitChildren(gc.heap, gc.children, 1..Len(gc.children),
                                    player, depth, -Inf, a, b, isPruning,
                                    <<gc.intact, FALSE>>)}

negamax(h, ref, player, depth, a, b, isPruning) ==
    IF depth = 0 \/ is_state_terminal(h[ref])
    THEN {[val |-> get_state_value(h[ref], player), heap |-> h, intact |-> TRUE,
           pruned |-> FALSE, made |-> 0]}
    ELSE LET gc == get_children(h, ref, OtherPlayer(player))
         IN  {[val |-> r.val,
               heap |-> SubSeq(r.heap, 1, Len(h)),
               intact |-> r.intact /\ SubSeq(r.heap, 1, Len(h)) = h,
               pruned |-> r.pruned,
               made |-> Len(gc.heap) - Len(h)]
              : r \in VisitChildren(gc.heap, gc.children, 1..Len(gc.children),
                                    player, depth, -Inf, a, b, isPruning,
                                    <<gc.intact, FALSE>>)}

(***************************************************************************)
(* Othello.get_best_move (othelloplayer.py 180-202)                        *)
(***************************************************************************)
\* None (and the empty tuple): what "not x" holds of.
None == <<>>

\* A first best_move whose score is 0.
InitialBestZero == [move |-> None, score |-> 0]

\* best_move = (None, -float("inf"))
InitialBest == [move |-> None, score |-> -Inf]

\* An update that ignores the kind of location on a tie.
UpdateBestNoLocation(best_move, move, score, width) ==
    IF score > best_move.score \/ best_move.move = None
    THEN [move |-> move, score |-> score]
    ELSE best_move

\* Lines 194-200: the two ifs that follow the scoring of a move.
UpdateBest(best_move, move, score, width) ==
    LET b1 == IF score > best_move.score
              THEN [move |-> move, score |-> score]
              ELSE best_move
    IN  IF score = b1.score
           /\ (\/ b1.move = None
               \/ get_location_type(move, width) > get_location_type(b1.move, width))
        THEN [move |-> move, score |-> score]
        ELSE b1

\* The loop over moves from the i-th on: a set of runs, as for negamax, each
\* with the scores given to the moves.  seen is <<intact, pruned, scores>>.
RECURSIVE BestMoveLoop(_, _, _, _, _, _, _, _)
BestMoveLoop(h, ref, moves, i, player, plies, best_move, seen) ==
    IF i > Len(moves)
    THEN {[move |-> best_move.move, heap |-> h, intact |-> seen[1],
           pruned |-> seen[2], scores |-> seen[3]]}
    ELSE IF moves[i] = None
    THEN BestMoveLoop(h, ref, moves, i + 1, player, plies, best_move, seen)
    ELSE LET n == New(h, ref)
             h2 == PlayMoveOn(n.heap, n.ref, moves[i], player)
         IN  UNION {
               BestMoveLoop(SubSeq(r.heap, 1, Len(h)), ref, moves, i + 1, player,
                            plies,
                            UpdateBest(best_move, moves[i], r.val, Len(h[ref])),
                            <<seen[1] /\ r.intact /\ h2[ref] = h[ref],
                              seen[2] \/ r.pruned,
                              Append(seen[3], <<moves[i], r.val>>)>>)
               : r \in negamax(h2, n.ref, player, plies - 1, -Inf, Inf, TRUE)}

get_best_move(h, ref, player, plies) ==
    BestMoveLoop(h, ref, get_available_moves(h[ref], player), 1, player, plies,
                 InitialBest, <<TRUE, FALSE, <<>>>>)

(***************************************************************************)
(* ComputerPlayer (othelloplayer.py 231-259)                               *)
(***************************************************************************)
\* __init__: the level kept (the player_ID assertion is the caller's guard).
\* A difficulty_level of None, as an integer no level equals.
NoLevel == -1

\* A clamp that replaces a missing level only.
difficulty_level_none_only(level) == IF level = NoLevel THEN 1 ELSE level

difficulty_level(level) == IF level = NoLevel \/ level < 1 THEN 1 ELSE level

\* ComputerPlayer.__init__ (othelloplayer.py 240-252)
ComputerPlayer_init(player_ID, level) ==
    IF ~(player_ID = 1 \/ player_ID = 2)
    THEN [raised |-> "AssertionError", player_ID |-> player_ID,
          difficulty_level |-> level]
    ELSE [raised |-> "ok", player_ID |-> player_ID,
          difficulty_level |-> difficulty_level(level)]

\* pick_move(board) of ComputerPlayer(player_ID, level); board is grid src.
pick_move(h, src, player_ID, level) ==
    LET othello == New(h, src)
    IN  {[move |-> r.move, heap |-> r.heap, intact |-> r.intact,
          pruned |-> r.pruned, scores |-> r.scores, root |-> othello.ref]
         : r \in get_best_move(othello.heap, othello.ref, player_ID,
                               difficulty_level(level))}

(***************************************************************************)
(* App (othello.py 56-249): the board and the turn loop of the GUI.        *)
(***************************************************************************)
\* App._is_on_board (othello.py 186-187)
App_is_on_board(b, location) ==
    /\ location[1] >= 0
    /\ location[2] >= 0
    /\ location[2] + 1 <= Len(b)
    /\ location[1] + 1 <= Len(b[1])

\* App._get_flipped (othello.py 160-183): the while(True) loop of one
\* direction; ended is FALSE when the loop never leaves.
RECURSIVE AppWalkFrom(_, _, _, _, _)
AppWalkFrom(b, temp_loc, d, player, flip) ==
    IF ~App_is_on_board(b, temp_loc) THEN [ended |-> TRUE, flip |-> <<>>]
    ELSE LET tile == b[temp_loc[2] + 1][temp_loc[1] + 1]
         IN  IF tile = 0 THEN [ended |-> TRUE, flip |-> <<>>]
             ELSE IF tile = player THEN [ended |-> TRUE, flip |-> flip]
             ELSE IF d = <<0, 0>> THEN [ended |-> FALSE, flip |-> <<>>]
             ELSE AppWalkFrom(b, <<temp_loc[1] + d[1], temp_loc[2] + d[2]>>, d,
                              player, Append(flip, temp_loc))

\* The loops for x in range(-1, 2): for y in range(-1, 2), from the i-th
\* offset on.
RECURSIVE AppFlippedFrom(_, _, _, _, _)
AppFlippedFrom(b, location, player, i, flipped) ==
    IF i > 9 THEN [returns |-> TRUE, flipped |-> flipped]
    ELSE LET d == <<((i - 1) \div 3) - 1, ((i - 1) % 3) - 1>>
             w == AppWalkFrom(b, <<location[1] + d[1], location[2] + d[2]>>, d,
                              player, <<>>)
         IN  IF ~w.ended THEN [returns |-> FALSE, flipped |-> <<>>]
             ELSE AppFlippedFrom(b, location, player, i + 1, flipped \o w.flip)

App_get_flipped(b, location, player) ==
    AppFlippedFrom(b, location, player, 1, <<>>).flipped

\* App._get_valid_moves (othello.py 190-199), from the i-th cell on.
RECURSIVE AppScanMoves(_, _, _, _)
AppScanMoves(b, player, i, available) ==
    IF i >= Len(b) * Len(b[1]) THEN available
    ELSE LET x == i % Len(b[1])
             y == i \div Len(b[1])
         IN  AppScanMoves(b, player, i + 1,
                 IF b[y + 1][x + 1] = 0 /\ App_get_flipped(b, <<x, y>>, player) # <<>>
                 THEN Append(available, <<x, y>>)
                 ELSE available)

App_get_valid_moves(b, player) == AppScanMoves(b, player, 0, <<>>)

\* A _flip_token that turns every disc it is given white.
App_flip_token_white(b, location) ==
    [b EXCEPT ![location[2] + 1][location[1] + 1] = 1]

\* App._flip_token (othello.py 229-236): a 1 becomes 2, anything else 1.
App_flip_token(b, location) ==
    [b EXCEPT ![location[2] + 1][location[1] + 1] = IF @ = 1 THEN 2 ELSE 1]

RECURSIVE AppFlipTokens(_, _, _)
AppFlipTokens(b, flipped, i) ==
    IF i > Len(flipped) THEN b
    ELSE AppFlipTokens(App_flip_token(b, flipped[i]), flipped, i + 1)

\* A placement that flips the captured discs and leaves the cell Empty.
AppPlacedFlipsOnly(b, location, player_num) ==
    LET placed == [b EXCEPT ![location[2] + 1][location[1] + 1] = player_num]
    IN  AppFlipTokens(b, App_get_flipped(placed, location, player_num), 1)

\* The board after lines 124-129 of App._place_disc.
AppPlaced(b, location, player_num) ==
    LET placed == [b EXCEPT ![location[2] + 1][location[1] + 1] = player_num]
    IN  AppFlipTokens(placed, App_get_flipped(placed, location, player_num), 1)

\* HumanPlayer() in self.players; a ComputerPlayer is there as its level.
Human == 0

\* The attributes of no App.
NoApp ==
    [board |-> <<>>, current_player |-> 0, buttons |-> <<>>, scheduled |-> 0,
     victory |-> FALSE, players |-> <<>>, raised |-> "ok",
     placements |-> 0, swaps |-> 0]

\* A _set_player that declares victory as soon as the player has no move.
App_set_player_no_pass(a, player_id) ==
    LET a1 == [a EXCEPT !.current_player = player_id]
        valid_moves == App_get_valid_moves(a.board, player_id)
    IN  IF valid_moves = <<>> THEN [a1 EXCEPT !.victory = TRUE]
        ELSE IF a.players[player_id] = Human
        THEN [a1 EXCEPT !.buttons = a.buttons \o valid_moves]
        ELSE [a1 EXCEPT !.scheduled = a.scheduled + 1]

\* App._set_player (othello.py 202-226), with the _swap_player it calls.
\* buttons are the moves that have a play button; scheduled counts the
\* _do_computer_turn calls that after() has pending; victory is set by
\* _declare_victory.  swaps counts the _swap_player calls _set_player has
\* made since the last _place_disc.
RECURSIVE App_set_player(_, _)
App_set_player(a, player_id) ==
    LET a1 == [a EXCEPT !.current_player = player_id]
        valid_moves == App_get_valid_moves(a.board, player_id)
    IN  IF valid_moves = <<>>
        THEN IF App_get_valid_moves(a.board, 1) = <<>>
                /\ App_get_valid_moves(a.board, 2) = <<>>
             THEN [a1 EXCEPT !.victory = TRUE]
             ELSE App_set_player([a1 EXCEPT !.swaps = a.swaps + 1],
                                 IF player_id = 1 THEN 2 ELSE 1)
        ELSE IF a.players[player_id] = Human
        THEN [a1 EXCEPT !.buttons = a.buttons \o valid_moves]
        ELSE [a1 EXCEPT !.scheduled = a.scheduled + 1]

\* App._place_disc (othello.py 112-132); player_num 0 stands for None.
\* placements counts the calls made with game_started.
App_place_disc(a, location, player_num, game_started) ==
    LET num == IF player_num = 0 THEN a.current_player ELSE player_num
        a1 == [a EXCEPT !.buttons = <<>>,
                        !.board = AppPlaced(a.board, location, num),
                        !.placements = IF game_started THEN @ + 1 ELSE @,
                        !.swaps = 0]
    IN  IF game_started
        THEN App_set_player(a1, IF a1.current_player = 1 THEN 2 ELSE 1)
        ELSE a1

\* App.__init__ (othello.py 57-109) with players (None, players[1],
\* players[2]).
App_init(players, grid_size) ==
    LET mtl == (grid_size \div 2) - 1
        a0 == [NoApp EXCEPT
                 !.board = [r \in 1..grid_size |-> [c \in 1..grid_size |-> 0]],
                 !.players = players]
        a1 == App_place_disc(a0, <<mtl, mtl>>, 1, FALSE)
        a2 == App_place_disc(a1, <<mtl + 1, mtl + 1>>, 1, FALSE)
        a3 == App_place_disc(a2, <<mtl, mtl + 1>>, 2, FALSE)
        a4 == App_place_disc(a3, <<mtl + 1, mtl>>, 2, FALSE)
    IN  App_set_player(a4, 2)

\* App._do_computer_turn (othello.py 239-249), one pending after() call
\* firing; move is what pick_move returned.  _is_on_board(None) raises a
\* TypeError, a failed assert an AssertionError.
App_do_computer_turn(a, move) ==
    LET a1 == [a EXCEPT !.scheduled = a.scheduled - 1]
    IN  IF move = None THEN [a1 EXCEPT !.raised = "TypeError"]
        ELSE IF ~App_is_on_board(a.board, move)
        THEN [a1 EXCEPT !.raised = "AssertionError"]
        ELSE IF a.board[move[2] + 1][move[1] + 1] # 0
        THEN [a1 EXCEPT !.raised = "AssertionError"]
        ELSE App_place_disc(a1, move, 0, TRUE)

(***************************************************************************)
(* The boards explored                                                     *)
(***************************************************************************)
Coords == {<<x, y>> : x \in 0..(Width - 1), y \in 0..(Width - 1)}

FilledBoard(v) == [r \in 1..Width |-> [c \in 1..Width |-> v]]

BaseBoards == {FilledBoard(0), FilledBoard(1), FilledBoard(2), StartBoard(Width)}

RECURSIVE Edited(_, _)
Edited(bs, n) ==
    IF n = 0 THEN bs
    ELSE Edited(bs \cup {SetCell(b, loc, v) : b \in bs, loc \in Coords, v \in Cells},
                n - 1)

InitBoards == Edited(BaseBoards, MaxEdits)

\* The boards searched: few Empty cells, so that the whole game tree under
\* them is searched within MaxPlies plies, with passes and ended games.
SearchBoards ==
    {[r \in 1..Width |-> [c \in 1..Width |->
        IF (r - 1) * Width + c <= FreeCells
        THEN f[(r - 1) * Width + c]
        ELSE 1 + ((c + v) % 2)]]
     : f \in [1..FreeCells -> Cells], v \in {0, 1}}

(***************************************************************************)
(* The engine under test: one Othello instance and the last call made on   *)
(* it.                                                                     *)
(***************************************************************************)
VARIABLES
    board,      \* self.board of the instance
    call,       \* the method last called ("none" after construction)
    arg_loc,    \* its location argument
    arg_player, \* its player argument
    arg_depth,  \* its depth (or plies, or level) argument
    arg_pruning,\* its isPruning argument
    before,     \* self.board when it was called
    ret,        \* what it returned
    root_board, \* the grid of the Othello that pick_move built, after the call
    intact,     \* no grid was changed by a move played on another
    pruned,     \* a break of the search left a child unvisited
    scores,     \* the moves get_best_move scored, each with its score
    arg_window, \* the window (a, b) of a negamax call
    made,       \* the grids the call's own get_children allocated
    arg_board,  \* the board argument of a constructor: <<>> for None, else <<grid>>
    app         \* the App: its board, turn, play buttons, pending timer, banner

vars == <<board, call, arg_loc, arg_player, arg_depth, arg_pruning, before, ret,
          root_board, intact, pruned, scores, arg_window, made, arg_board, app>>

NoLoc == <<-1, -1>>

\* Othello(board) on a grid of the explored family.
Init ==
    /\ board \in {CopyBoard(b) : b \in InitBoards}
    /\ call = "none"
    /\ arg_loc = NoLoc
    /\ arg_player = 0
    /\ arg_depth = 0
    /\ arg_pruning = FALSE
    /\ before = board
    /\ ret = 0
    /\ root_board = board
    /\ intact = TRUE
    /\ pruned = FALSE
    /\ scores = <<>>
    /\ arg_window = <<0, 0>>
    /\ made = 0
    /\ arg_board = <<>>
    /\ app = NoApp

GetFlipped(location, player) ==
    /\ call = "none"
    /\ get_flipped_run(board, location, player).returns
    /\ call' = "get_flipped"
    /\ arg_loc' = location
    /\ arg_player' = player
    /\ before' = board
    /\ ret' = get_flipped(board, location, player)
    /\ UNCHANGED <<board, arg_depth, arg_pruning, root_board, intact, pruned, scores,
                 arg_window, made, arg_board, app>>

\* get_flipped(location, player) where the while loop of the offset (0, 0)
\* never leaves: the call is entered and no result comes back.
GetFlippedUnending(location, player) ==
    /\ call = "none"
    /\ ~get_flipped_run(board, location, player).returns
    /\ call' = "get_flipped_unending"
    /\ arg_loc' = location
    /\ arg_player' = player
    /\ before' = board
    /\ ret' = <<>>
    /\ UNCHANGED <<board, arg_depth, arg_pruning, root_board, intact, pruned, scores,
                   arg_window, made, arg_board, app>>

GetAvailableMoves(player) ==
    /\ call = "none"
    /\ call' = "get_available_moves"
    /\ arg_loc' = NoLoc
    /\ arg_player' = player
    /\ before' = board
    /\ ret' = get_available_moves(board, player)
    /\ UNCHANGED <<board, arg_depth, arg_pruning, root_board, intact, pruned, scores,
                 arg_window, made, arg_board, app>>

PlayMove(location, player) ==
    /\ call = "none"
    /\ CellAt(board, location) = 0
    /\ call' = "play_move"
    /\ arg_loc' = location
    /\ arg_player' = player
    /\ before' = board
    /\ board' = play_move(board, location, player)
    /\ ret' = 0
    /\ UNCHANGED <<arg_depth, arg_pruning, root_board, intact, pruned, scores,
                 arg_window, made, arg_board, app>>

GetStateValue(player) ==
    /\ call = "none"
    /\ call' = "get_state_value"
    /\ arg_loc' = NoLoc
    /\ arg_player' = player
    /\ before' = board
    /\ ret' = get_state_value(board, player)
    /\ UNCHANGED <<board, arg_depth, arg_pruning, root_board, intact, pruned, scores,
                 arg_window, made, arg_board, app>>

IsStateTerminal ==
    /\ call = "none"
    /\ call' = "is_state_terminal"
    /\ arg_loc' = NoLoc
    /\ arg_player' = 0
    /\ before' = board
    /\ ret' = is_state_terminal(board)
    /\ UNCHANGED <<board, arg_depth, arg_pruning, root_board, intact, pruned, scores,
                 arg_window, made, arg_board, app>>

\* get_children(player): ret is the sequence of the children's grids.
GetChildren(player) ==
    /\ call = "none"
    /\ \E gc \in {get_children(<<board>>, 1, player)} :
          /\ ret' = [i \in 1..Len(gc.children) |-> gc.heap[gc.children[i]]]
          /\ board' = gc.heap[1]
          /\ intact' = gc.intact
          /\ made' = Len(gc.heap) - 1
    /\ call' = "get_children"
    /\ arg_loc' = NoLoc
    /\ arg_player' = player
    /\ before' = board
    /\ UNCHANGED <<arg_depth, arg_pruning, root_board, pruned, scores, arg_window,
                 arg_board, app>>

Next ==
    \/ \E location \in Coords, player \in Players : GetFlipped(location, player)
    \/ \E location \in Coords, player \in Players : GetFlippedUnending(location, player)
    \/ \E player \in Players : GetAvailableMoves(player)
    \/ \E location \in Coords, player \in Players : PlayMove(location, player)
    \/ \E player \in Cells : GetStateValue(player)
    \/ IsStateTerminal
    \/ \E player \in Players : GetChildren(player)

Spec == Init /\ [][Next]_vars

\* The grids Othello is constructed with: the empty list and every square
\* grid of at most MaxGridWidth rows.
NewGrids ==
    {<<>>} \cup UNION {[1..w -> [1..w -> Cells]] : w \in 1..MaxGridWidth}

\* The ends of the windows negamax is called with.
WindowEnds == {-Inf, 0, 2 * Width, Inf}

(***************************************************************************)
(* The search under test: negamax and get_best_move on an Othello          *)
(* instance whose grid is board, and pick_move on the caller's grid board. *)
(* Each action takes one outcome of the shuffles.                          *)
(***************************************************************************)
\* Othello(board) on a grid of the searched family.
InitSearch ==
    /\ board \in {CopyBoard(b) : b \in SearchBoards}
    /\ call = "none"
    /\ arg_loc = NoLoc
    /\ arg_player = 0
    /\ arg_depth = 0
    /\ arg_pruning = FALSE
    /\ before = board
    /\ ret = 0
    /\ root_board = board
    /\ intact = TRUE
    /\ pruned = FALSE
    /\ scores = <<>>
    /\ arg_window = <<0, 0>>
    /\ made = 0
    /\ arg_board = <<>>
    /\ app = NoApp

Negamax(player, depth, isPruning) ==
    /\ call = "none"
    /\ \E r \in negamax(<<board>>, 1, player, depth, -Inf, Inf, isPruning) :
          /\ ret' = r.val
          /\ board' = r.heap[1]
          /\ root_board' = r.heap[1]
          /\ intact' = r.intact
          /\ pruned' = r.pruned
          /\ scores' = <<>>
          /\ made' = r.made
    /\ call' = "negamax"
    /\ arg_loc' = NoLoc
    /\ arg_player' = player
    /\ arg_depth' = depth
    /\ arg_pruning' = isPruning
    /\ before' = board
    /\ arg_window' = <<-Inf, Inf>>
    /\ UNCHANGED <<arg_board, app>>

GetBestMove(player, plies) ==
    /\ call = "none"
    /\ \E r \in get_best_move(<<board>>, 1, player, plies) :
          /\ ret' = r.move
          /\ board' = r.heap[1]
          /\ root_board' = r.heap[1]
          /\ intact' = r.intact
          /\ pruned' = r.pruned
          /\ scores' = r.scores
          /\ made' = 0
    /\ call' = "get_best_move"
    /\ arg_loc' = NoLoc
    /\ arg_player' = player
    /\ arg_depth' = plies
    /\ arg_pruning' = TRUE
    /\ before' = board
    /\ arg_window' = <<-Inf, Inf>>
    /\ UNCHANGED <<arg_board, app>>

\* ComputerPlayer(player_ID, level) alone.
NewComputerPlayer(player_ID, level) ==
    /\ call = "none"
    /\ call' = "ComputerPlayer"
    /\ arg_player' = player_ID
    /\ arg_depth' = level
    /\ ret' = ComputerPlayer_init(player_ID, level)
    /\ UNCHANGED <<board, arg_loc, arg_pruning, before, root_board, intact, pruned,
                   scores, arg_window, made, arg_board, app>>

\* ComputerPlayer(player_ID, level).pick_move(board)
PickMove(player_ID, level) ==
    /\ call = "none"
    /\ ComputerPlayer_init(player_ID, level).raised = "ok"
    /\ \E r \in pick_move(<<board>>, 1, player_ID, level) :
          /\ ret' = r.move
          /\ board' = r.heap[1]
          /\ root_board' = r.heap[r.root]
          /\ intact' = r.intact
          /\ pruned' = r.pruned
          /\ scores' = r.scores
          /\ made' = 0
    /\ call' = "pick_move"
    /\ arg_loc' = NoLoc
    /\ arg_player' = player_ID
    /\ arg_depth' = level
    /\ arg_pruning' = TRUE
    /\ before' = board
    /\ arg_window' = <<-Inf, Inf>>
    /\ UNCHANGED <<arg_board, app>>

\* negamax(player, depth, a, b, isPruning) with any window.
NegamaxWindow(player, depth, a, b, isPruning) ==
    /\ call = "none"
    /\ \E r \in negamax(<<board>>, 1, player, depth, a, b, isPruning) :
          /\ ret' = r.val
          /\ board' = r.heap[1]
          /\ root_board' = r.heap[1]
          /\ intact' = r.intact
          /\ pruned' = r.pruned
          /\ scores' = <<>>
          /\ made' = r.made
    /\ call' = "negamax_window"
    /\ arg_loc' = NoLoc
    /\ arg_player' = player
    /\ arg_depth' = depth
    /\ arg_pruning' = isPruning
    /\ before' = board
    /\ arg_window' = <<a, b>>
    /\ UNCHANGED <<arg_board, app>>

PlayerIDs == 0..3

NextSearch ==
    \/ \E player \in Players, depth \in 0..MaxPlies, isPruning \in BOOLEAN :
          Negamax(player, depth, isPruning)
    \/ \E player \in Players, plies \in 1..MaxPlies : GetBestMove(player, plies)
    \/ \E player_ID \in PlayerIDs, level \in {NoLevel} \cup 0..MaxPlies :
          NewComputerPlayer(player_ID, level)
    \/ \E player_ID \in PlayerIDs, level \in {NoLevel} \cup 0..MaxPlies :
          PickMove(player_ID, level)
    \/ \E player \in Players, depth \in 0..MaxWindowDepth,
          a \in WindowEnds, b \in WindowEnds, isPruning \in BOOLEAN :
          NegamaxWindow(player, depth, a, b, isPruning)

SpecSearch == InitSearch /\ [][NextSearch]_vars

(***************************************************************************)
(* A game in the window: App(players, grid_size = Width), then play        *)
(* buttons pressed and pending computer turns run by the main loop.        *)
(***************************************************************************)
\* The players main() hands to App: each seat a human or a ComputerPlayer
\* of the seat's colour.  A ComputerPlayer is given as its level; level 2
\* is played against itself only.
GamePlayers ==
    {<<Human, Human>>, <<Human, 1>>, <<1, Human>>, <<1, 1>>, <<2, 2>>}

GameSizes == {2, Width}

InitGame ==
    /\ board = <<>>
    /\ call = "App"
    /\ arg_loc = NoLoc
    /\ arg_player = 0
    /\ arg_depth = 0
    /\ arg_pruning = FALSE
    /\ before = <<>>
    /\ ret = None
    /\ root_board = <<>>
    /\ intact = TRUE
    /\ pruned = FALSE
    /\ scores = <<>>
    /\ arg_window = <<0, 0>>
    /\ made = 0
    /\ arg_board = <<>>
    /\ app \in {App_init(players, grid_size)
                : players \in GamePlayers, grid_size \in GameSizes}

\* The i-th play button is pressed: its command is _place_disc(move).
Click(i) ==
    /\ app.raised = "ok"
    /\ i \in 1..Len(app.buttons)
    /\ call' = "click"
    /\ arg_loc' = app.buttons[i]
    /\ arg_player' = app.current_player
    /\ before' = app.board
    /\ ret' = None
    /\ app' = App_place_disc(app, app.buttons[i], 0, TRUE)
    /\ UNCHANGED <<board, arg_depth, arg_pruning, root_board, intact, pruned, scores,
                   arg_window, made, arg_board>>

\* A pending _do_computer_turn runs: pick_move on a tuple copy of the board.
ComputerTurn ==
    /\ app.raised = "ok"
    /\ app.scheduled > 0
    /\ \E r \in pick_move(<<app.board>>, 1, app.current_player,
                           app.players[app.current_player]) :
          /\ ret' = r.move
          /\ app' = App_do_computer_turn(app, r.move)
    /\ call' = "computer_turn"
    /\ arg_loc' = NoLoc
    /\ arg_player' = app.current_player
    /\ before' = app.board
    /\ UNCHANGED <<board, arg_depth, arg_pruning, root_board, intact, pruned, scores,
                   arg_window, made, arg_board>>

NextGame ==
    \/ \E i \in 1..(Width * Width) : Click(i)
    \/ ComputerTurn

SpecGame == InitGame /\ [][NextGame]_vars

\* A play button is shown or a computer turn is pending.
Waiting == app.raised = "ok" /\ (app.buttons # <<>> \/ app.scheduled > 0)

\* The main loop runs every callback after() has pending, and a human
\* whose turn it is presses one of the play buttons shown: weak fairness
\* of NextGame, WF_vars(NextGame), written out with the state predicate
\* Waiting for ENABLED <<NextGame>>_vars.
SpecGameFair ==
    /\ SpecGame
    /\ ([]<>~Waiting \/ []<><<NextGame>>_vars)

(***************************************************************************)
(* Construction under test: no instance yet, then one constructor call.    *)
(***************************************************************************)
InitNew ==
    /\ board = <<>>
    /\ call = "none"
    /\ arg_loc = NoLoc
    /\ arg_player = 0
    /\ arg_depth = 0
    /\ arg_pruning = FALSE
    /\ before = <<>>
    /\ ret = "none"
    /\ root_board = <<>>
    /\ intact = TRUE
    /\ pruned = FALSE
    /\ scores = <<>>
    /\ arg_window = <<0, 0>>
    /\ made = 0
    /\ arg_board = <<>>
    /\ app = NoApp

\* Othello(board, width): ret is what was raised, board the new self.board.
Construct(board_arg, width) ==
    /\ call = "none"
    /\ \E o \in {Othello_init(board_arg, width)} :
          /\ ret' = o.raised
          /\ board' = o.board
    /\ call' = "Othello"
    /\ arg_board' = board_arg
    /\ arg_depth' = width
    /\ UNCHANGED <<arg_loc, arg_player, arg_pruning, before, root_board, intact,
                   pruned, scores, arg_window, made, app>>

\* App(players, colors, grid_size) with two human players.
AppNew(grid_size) ==
    /\ call = "none"
    /\ app' = App_init(<<Human, Human>>, grid_size)
    /\ call' = "App"
    /\ arg_depth' = grid_size
    /\ ret' = "ok"
    /\ UNCHANGED <<board, arg_loc, arg_player, arg_pruning, before, root_board,
                   intact, pruned, scores, arg_window, made, arg_board>>

\* _get_available_moves(player) on the Othello(None, width) just built.
StartMoves(player) ==
    /\ call = "Othello"
    /\ arg_board = <<>>
    /\ ret = "ok"
    /\ call' = "get_available_moves"
    /\ arg_loc' = NoLoc
    /\ arg_player' = player
    /\ before' = board
    /\ ret' = get_available_moves(board, player)
    /\ UNCHANGED <<board, arg_depth, arg_pruning, root_board, intact, pruned, scores,
                   arg_window, made, arg_board, app>>

\* get_flipped(location, player) on the Othello(None, width) just built.
StartFlipped(location, player) ==
    /\ call = "Othello"
    /\ arg_board = <<>>
    /\ ret = "ok"
    /\ is_on_board(board, location)
    /\ get_flipped_run(board, location, player).returns
    /\ call' = "get_flipped"
    /\ arg_loc' = location
    /\ arg_player' = player
    /\ before' = board
    /\ ret' = get_flipped(board, location, player)
    /\ UNCHANGED <<board, arg_depth, arg_pruning, root_board, intact, pruned, scores,
                   arg_window, made, arg_board, app>>

NextNew ==
    \/ /\ call = "none"
       /\ \E board_arg \in {<<>>} \cup {<<g>> : g \in NewGrids},
             width \in {NoWidth} \cup 0..MaxWidth :
             Construct(board_arg, width)
    \/ \E grid_size \in 2..MaxWidth : AppNew(grid_size)
    \/ \E player \in Players : StartMoves(player)
    \/ \E location \in (0..(MaxWidth - 1)) \X (0..(MaxWidth - 1)), player \in Players :
          StartFlipped(location, player)

SpecNew == InitNew /\ [][NextNew]_vars

(***************************************************************************)
(* The rules of the game, stated on the grid without the code's loops.     *)
(***************************************************************************)
Dirs8 == {<<dx, dy>> : dx \in -1..1, dy \in -1..1} \ {<<0, 0>>}

Opponent(player) == 3 - player

Step(loc, d, k) == <<loc[1] + k * d[1], loc[2] + k * d[2]>>

InGrid(b, loc) ==
    /\ loc[1] \in 0..(Len(b[1]) - 1)
    /\ loc[2] \in 0..(Len(b) - 1)

GridCoords(b) == {<<x, y>> : x \in 0..(Len(b[1]) - 1), y \in 0..(Len(b) - 1)}

\* From loc in direction d lie k >= 1 opposing discs and then a disc of player.
IsRun(b, loc, d, k, player) ==
    /\ \A i \in 1..k :
          InGrid(b, Step(loc, d, i)) /\ CellAt(b, Step(loc, d, i)) = Opponent(player)
    /\ InGrid(b, Step(loc, d, k + 1))
    /\ CellAt(b, Step(loc, d, k + 1)) = player

Sandwiched(b, loc, player) ==
    UNION {{Step(loc, d[1], j) : j \in 1..d[2]} :
              d \in {e \in Dirs8 \X (1..Len(b)) : IsRun(b, loc, e[1], e[2], player)}}

SeqToSet(s) == {s[i] : i \in 1..Len(s)}

HasLegalMove(b, player) ==
    \E c \in GridCoords(b) : CellAt(b, c) = 0 /\ Sandwiched(b, c, player) # {}

RowMajor(b, loc) == loc[2] * Len(b[1]) + loc[1]

(***************************************************************************)
(* C1: on an Empty on-board coordinate get_flipped returns exactly the      *)
(* cells of the runs of one or more opposing discs that start next to the  *)
(* coordinate and are closed, on the board, by a disc of the player; rays  *)
(* ending off-board or on an Empty cell, or with no opposing disc, add      *)
(* nothing; no cell is returned twice.                                     *)
(***************************************************************************)
C1_FlippedIsSandwiched ==
    (call = "get_flipped" /\ CellAt(before, arg_loc) = 0)
        => /\ SeqToSet(ret) = Sandwiched(before, arg_loc, arg_player)
           /\ Len(ret) = Cardinality(SeqToSet(ret))

\* get_flipped returned a run of two discs in one direction while another
\* ray from the same coordinate holds an opposing disc and is not closed.
C1_Witness ==
    /\ call = "get_flipped"
    /\ CellAt(before, arg_loc) = 0
    /\ \E d \in Dirs8 : ret = <<Step(arg_loc, d, 1), Step(arg_loc, d, 2)>>
    /\ \E d \in Dirs8 :
          /\ InGrid(before, Step(arg_loc, d, 1))
          /\ CellAt(before, Step(arg_loc, d, 1)) = Opponent(arg_player)
          /\ Step(arg_loc, d, 1) \notin SeqToSet(ret)

(***************************************************************************)
(* C2: _get_available_moves returns exactly the Empty coordinates whose    *)
(* get_flipped is non-empty, each once, in row-major scan order.           *)
(***************************************************************************)
C2_AvailableMoves ==
    call = "get_available_moves"
        => /\ SeqToSet(ret) =
                 {c \in GridCoords(before) :
                     /\ CellAt(before, c) = 0
                     /\ get_flipped(before, c, arg_player) # <<>>}
           /\ \A i \in 1..Len(ret), j \in 1..Len(ret) :
                 i < j => RowMajor(before, ret[i]) < RowMajor(before, ret[j])

\* Two moves in different rows and columns were listed, and an Empty cell
\* that flips nothing was left out.
C2_Witness ==
    /\ call = "get_available_moves"
    /\ \E i \in 1..Len(ret), j \in 1..Len(ret) :
          i < j /\ ret[i][1] > ret[j][1] /\ ret[i][2] < ret[j][2]
    /\ \E c \in GridCoords(before) :
          CellAt(before, c) = 0 /\ c \notin SeqToSet(ret)

(***************************************************************************)
(* C3: play_move on an Empty coordinate raises the player's count by       *)
(* 1 + |F|, lowers the opponent's by |F| and the Empty count by 1, F being *)
(* get_flipped on the board before the move.                               *)
(***************************************************************************)
C3_PlayMoveCounts ==
    call = "play_move"
        => LET F == get_flipped(before, arg_loc, arg_player)
           IN  /\ get_state_value(board, arg_player)
                     = get_state_value(before, arg_player) + 1 + Len(F)
               /\ get_state_value(board, Opponent(arg_player))
                     = get_state_value(before, Opponent(arg_player)) - Len(F)
               /\ get_state_value(board, 0) = get_state_value(before, 0) - 1

\* A move that captured two discs.
C3_Witness ==
    /\ call = "play_move"
    /\ CellAt(before, arg_loc) = 0
    /\ Len(get_flipped(before, arg_loc, arg_player)) = 2
    /\ get_state_value(board, arg_player) = get_state_value(before, arg_player) + 3

(***************************************************************************)
(* C4: _is_state_terminal is true iff no cell is Empty or neither player   *)
(* has a legal move.                                                       *)
(***************************************************************************)
C4_TerminalIff ==
    call = "is_state_terminal"
        => (ret <=> (\/ \A c \in GridCoords(before) : CellAt(before, c) # 0
                     \/ ~HasLegalMove(before, 1) /\ ~HasLegalMove(before, 2)))

\* A board with an Empty cell on which exactly one player has no legal move
\* was found not terminal.
C4_Witness ==
    /\ call = "is_state_terminal"
    /\ ret = FALSE
    /\ \E c \in GridCoords(before) : CellAt(before, c) = 0
    /\ HasLegalMove(before, 1) # HasLegalMove(before, 2)

(***************************************************************************)
(* The search, stated on the grid without the code's loops, heap or        *)
(* shuffles.  (Values that are used more than once are bound by a          *)
(* quantifier over a one-element set, so that they are computed once.)     *)
(***************************************************************************)
Count(b, v) == Cardinality({c \in GridCoords(b) : CellAt(b, c) = v})

LegalMoves(b, player) ==
    {c \in GridCoords(b) : CellAt(b, c) = 0 /\ Sandwiched(b, c, player) # {}}

\* The board after player places a disc on loc and captures.
AfterMove(b, loc, player) ==
    CHOOSE nb \in
        {[r \in 1..Len(b) |-> [c \in 1..Len(b[r]) |->
              IF <<c - 1, r - 1>> \in taken THEN player ELSE b[r][c]]]
         : taken \in {Sandwiched(b, loc, player) \cup {loc}}} : TRUE

NextBoards(b, player) == {AfterMove(b, m, player) : m \in LegalMoves(b, player)}

GameOver(b) ==
    \/ Count(b, 0) = 0
    \/ LegalMoves(b, 1) = {} /\ LegalMoves(b, 2) = {}

SetMax(S) == CHOOSE v \in {CHOOSE x \in T : \A w \in T : w <= x : T \in {S}} : TRUE

\* Full-width negamax with the code's conventions: the replies are the
\* opponent's, the value is negated on return, and a node without replies
\* is worth -(-Inf).
RECURSIVE FullWidth(_, _, _)
FullWidth(b, player, depth) ==
    IF depth = 0 \/ GameOver(b) THEN Count(b, player)
    ELSE -SetMax({-Inf} \cup
                 {FullWidth(nb, Opponent(player), depth - 1)
                  : nb \in NextBoards(b, Opponent(player))})

\* The score get_best_move gives move m.
Score(b, m, player, plies) ==
    CHOOSE v \in {FullWidth(nb, player, plies - 1) : nb \in {AfterMove(b, m, player)}}
        : TRUE

\* The legal moves, each with its score.
Scores(b, player, plies) ==
    {<<m, Score(b, m, player, plies)>> : m \in LegalMoves(b, player)}

\* The plies the last get_best_move or pick_move searched with.
Plies == IF call = "pick_move" THEN difficulty_level(arg_depth) ELSE arg_depth

ChoseMove == call \in {"get_best_move", "pick_move"}

(***************************************************************************)
(* C5: get_best_move (and pick_move) returns None iff the player has no    *)
(* legal move, and otherwise an on-board Empty coordinate whose placement  *)
(* flips at least one disc, whatever the scores.                           *)
(***************************************************************************)
C5_BestMoveIsLegal ==
    ChoseMove
        => /\ (ret = None) <=> (LegalMoves(before, arg_player) = {})
           /\ ret # None => ret \in LegalMoves(before, arg_player)

\* A move was returned although every candidate scored -Inf, the score
\* best_move starts with.
C5_Witness ==
    /\ ChoseMove
    /\ ret # None
    /\ \A e \in Scores(before, arg_player, Plies) : e[2] = -Inf

(***************************************************************************)
(* C6: negamax at depth > 0 on a board that is not terminal and on which   *)
(* the side whose replies it generates has no legal move passes: it        *)
(* returns the value of the search continued on the same board with the    *)
(* other side moving.                                                      *)
(***************************************************************************)
\* Negamax in which a side without a move passes.
RECURSIVE PassingNegamax(_, _, _)
PassingNegamax(b, player, depth) ==
    IF depth = 0 \/ GameOver(b) THEN Count(b, player)
    ELSE IF LegalMoves(b, Opponent(player)) = {}
    THEN -PassingNegamax(b, Opponent(player), depth - 1)
    ELSE -SetMax({PassingNegamax(nb, Opponent(player), depth - 1)
                  : nb \in NextBoards(b, Opponent(player))})

C6_PassContinuesSearch ==
    (/\ call = "negamax"
     /\ arg_depth > 0
     /\ ~GameOver(before)
     /\ LegalMoves(before, Opponent(arg_player)) = {})
        => ret = PassingNegamax(before, arg_player, arg_depth)

(***************************************************************************)
(* C7: with the full window, negamax with pruning returns what negamax     *)
(* without pruning returns, in whatever order the children are visited:    *)
(* both return the full-width value.                                       *)
(***************************************************************************)
C7_PruningKeepsValue ==
    call = "negamax" => ret = FullWidth(before, arg_player, arg_depth)

\* A pruned search in which a break left a child unvisited, with a value
\* that is no sentinel.
C7_Witness ==
    /\ call = "negamax"
    /\ arg_pruning
    /\ pruned
    /\ ret \notin {Inf, -Inf}

(***************************************************************************)
(* C8: under every shuffle get_best_move gives each candidate the same     *)
(* score, its full-width score, and returns the same move: the move its    *)
(* selection loop picks from those scores.                                 *)
(***************************************************************************)
RECURSIVE SelectFrom(_, _, _, _, _, _)
SelectFrom(b, moves, i, player, plies, best_move) ==
    IF i > Len(moves) THEN best_move.move
    ELSE CHOOSE r \in
           {SelectFrom(b, moves, i + 1, player, plies, nb)
            : nb \in {UpdateBest(best_move, moves[i], sc, Len(b))
                      : sc \in {Score(b, moves[i], player, plies)}}} : TRUE

C8_SameMoveEveryShuffle ==
    ChoseMove
        => \E moves \in {get_available_moves(before, arg_player)},
              first \in {InitialBest} :
              /\ ret = SelectFrom(before, moves, 1, arg_player, Plies, first)
              /\ scores = [i \in 1..Len(moves) |->
                             <<moves[i], Score(before, moves[i], arg_player, Plies)>>]

\* A choice among several candidates in whose scoring a break left a
\* child unvisited.
C8_Witness ==
    /\ ChoseMove
    /\ pruned
    /\ ret # None
    /\ Cardinality(LegalMoves(before, arg_player)) >= 2

(***************************************************************************)
(* C9: the move returned has the greatest score; among the moves of that   *)
(* score it has the greatest location class; among those of that score and *)
(* class it is the first in scan order.                                    *)
(***************************************************************************)
LocationClass(m) == get_location_type(m, Len(before))

C9_TieBreak ==
    (ChoseMove /\ ret # None)
        => \E sc \in {Scores(before, arg_player, Plies)} :
              \E chosen \in sc :
                 /\ chosen[1] = ret
                 /\ \A e \in sc : e[2] <= chosen[2]
                 /\ \A e \in sc :
                       e[2] = chosen[2] => LocationClass(e[1]) <= LocationClass(ret)
                 /\ \A e \in sc :
                       (e[2] = chosen[2] /\ LocationClass(e[1]) = LocationClass(ret))
                           => RowMajor(before, ret) <= RowMajor(before, e[1])

\* The move returned comes later in scan order than a move of the same
\* score and a lower class.
C9_Witness ==
    /\ ChoseMove
    /\ ret # None
    /\ \E sc \in {Scores(before, arg_player, Plies)} :
          \E chosen \in sc :
             /\ chosen[1] = ret
             /\ \E e \in sc :
                   /\ e[2] = chosen[2]
                   /\ RowMajor(before, e[1]) < RowMajor(before, ret)
                   /\ LocationClass(e[1]) < LocationClass(ret)

(***************************************************************************)
(* C10: pick_move, get_best_move and negamax leave the caller's grid and   *)
(* the root Othello's grid as they were, and no move played on a child     *)
(* changes its parent's grid or a sibling's.                               *)
(***************************************************************************)
C10_SearchCopies ==
    call \in {"negamax", "get_best_move", "pick_move"}
        => /\ board = before
           /\ root_board = before
           /\ intact

\* A pick_move that played a candidate and a reply to it on copies.
C10_Witness ==
    /\ call = "pick_move"
    /\ Plies >= 2
    /\ ret # None
    /\ \E b1 \in {AfterMove(before, ret, arg_player)} :
          LegalMoves(b1, Opponent(arg_player)) # {}
    /\ board = before

(***************************************************************************)
(* C11: negamax at depth 0, and at any depth on a terminal board, returns  *)
(* the count of the player's discs whatever the window and the pruning     *)
(* flag, and allocates no child board.                                     *)
(***************************************************************************)
C11_LeafValue ==
    (call \in {"negamax", "negamax_window"} /\ (arg_depth = 0 \/ GameOver(before)))
        => /\ ret = Count(before, arg_player)
           /\ made = 0

\* A pruning call at a depth above 0, with a window between two counts, on
\* a terminal board.
C11_Witness ==
    /\ call = "negamax_window"
    /\ arg_depth > 0
    /\ arg_pruning
    /\ arg_window = <<0, 2 * Width>>
    /\ GameOver(before)

(***************************************************************************)
(* C12: get_children(player) returns one board per legal move of player,   *)
(* in scan order of the moves, the i-th being the parent board with the     *)
(* i-th move played; it is empty exactly when player has no legal move.     *)
(***************************************************************************)
\* The i-th legal move of player in scan order.
NthMove(b, player, i) ==
    CHOOSE m \in LegalMoves(b, player) :
        Cardinality({n \in LegalMoves(b, player) : RowMajor(b, n) < RowMajor(b, m)})
            = i - 1

C12_ChildPerMove ==
    call = "get_children"
        => /\ Len(ret) = Cardinality(LegalMoves(before, arg_player))
           /\ \A i \in 1..Len(ret) :
                 ret[i] = AfterMove(before, NthMove(before, arg_player, i), arg_player)
           /\ (ret = <<>>) <=> ~HasLegalMove(before, arg_player)

\* Several children, not all the same board.
C12_Witness ==
    /\ call = "get_children"
    /\ Len(ret) >= 2
    /\ ret[1] # ret[2]
    /\ board = before

(***************************************************************************)
(* C13, as claimed: constructing an Othello fails with an assertion when   *)
(* neither a board nor a width is supplied, and whenever a supplied width  *)
(* is odd; with a supplied grid it succeeds and the board equals the grid. *)
(***************************************************************************)
C13_OddWidthAlwaysFails ==
    call = "Othello"
        => /\ (arg_board = <<>> /\ arg_depth = NoWidth) => ret = "AssertionError"
           /\ (arg_depth # NoWidth /\ arg_depth % 2 = 1) => ret = "AssertionError"
           /\ arg_board # <<>> => (ret = "ok" /\ board = arg_board[1])

(***************************************************************************)
(* C13, amended: constructing an Othello fails with an assertion when      *)
(* neither a grid with a row nor a width is supplied, and when no grid     *)
(* with a row is supplied and the width is odd; with a supplied grid that  *)
(* has a row it succeeds, whatever the width, and the board equals the     *)
(* grid cell for cell.                                                     *)
(***************************************************************************)
GridSupplied == arg_board # <<>> /\ arg_board[1] # <<>>

C13_Construction ==
    call = "Othello"
        => /\ (~GridSupplied /\ arg_depth = NoWidth) => ret = "AssertionError"
           /\ (~GridSupplied /\ arg_depth # NoWidth /\ arg_depth % 2 = 1)
                 => ret = "AssertionError"
           /\ GridSupplied
                 => /\ ret = "ok"
                    /\ Len(board) = Len(arg_board[1])
                    /\ \A r \in 1..Len(board) :
                          /\ Len(board[r]) = Len(arg_board[1][r])
                          /\ \A c \in 1..Len(board[r]) :
                                board[r][c] = arg_board[1][r][c]

\* A grid and an odd width were supplied, and the construction succeeded.
C13_Witness ==
    /\ call = "Othello"
    /\ GridSupplied
    /\ arg_depth # NoWidth
    /\ arg_depth % 2 = 1
    /\ ret = "ok"
    /\ board = arg_board[1]

(***************************************************************************)
(* C14: for every even width >= 2, Othello(None, width) has a width x      *)
(* width board whose only discs are those of player 1 on (w/2-1, w/2-1)    *)
(* and (w/2, w/2) and those of player 2 on (w/2-1, w/2) and (w/2, w/2-1);  *)
(* the board App builds with _place_disc is the same.                      *)
(***************************************************************************)
\* b is the start position of width w, cell by cell.
IsStartPosition(b, w) ==
    /\ Len(b) = w
    /\ \A r \in 1..w : Len(b[r]) = w
    /\ \A x \in 0..(w - 1), y \in 0..(w - 1) :
          b[y + 1][x + 1] =
              IF <<x, y>> \in {<<w \div 2 - 1, w \div 2 - 1>>, <<w \div 2, w \div 2>>}
              THEN 1
              ELSE IF <<x, y>> \in {<<w \div 2 - 1, w \div 2>>, <<w \div 2, w \div 2 - 1>>}
              THEN 2
              ELSE 0
    /\ Cardinality({c \in (0..(w - 1)) \X (0..(w - 1)) : b[c[2] + 1][c[1] + 1] # 0}) = 4

C14_StartPosition ==
    /\ (/\ call = "Othello"
        /\ arg_board = <<>>
        /\ arg_depth >= 2
        /\ arg_depth % 2 = 0) => (ret = "ok" /\ IsStartPosition(board, arg_depth))
    /\ (/\ call = "App"
        /\ arg_depth % 2 = 0) => IsStartPosition(app.board, arg_depth)

\* The App of the default size was built, and Black is to move.
C14_Witness ==
    /\ call = "App"
    /\ arg_depth = DefaultGridSize
    /\ app.current_player = 2
    /\ app.buttons # <<>>
    /\ Cardinality({c \in (1..arg_depth) \X (1..arg_depth) :
                       app.board[c[1]][c[2]] # 0}) = 4

(***************************************************************************)
(* C15: on the 8 x 8 start position the moves of player 2 are (2,3),       *)
(* (3,2), (4,5) and (5,4), and each of them flips exactly one disc.        *)
(***************************************************************************)
BlackOpenings == {<<2, 3>>, <<3, 2>>, <<4, 5>>, <<5, 4>>}

C15_OpeningMoves ==
    (arg_board = <<>> /\ arg_depth = DefaultGridSize /\ arg_player = 2)
        => /\ call = "get_available_moves"
                 => /\ SeqToSet(ret) = BlackOpenings
                    /\ Len(ret) = 4
           /\ (call = "get_flipped" /\ arg_loc \in BlackOpenings)
                 => Len(ret) = 1

\* Black's opening on (2,3) flips the disc on (3,3).
C15_Witness ==
    /\ call = "get_flipped"
    /\ arg_board = <<>>
    /\ arg_depth = DefaultGridSize
    /\ arg_player = 2
    /\ arg_loc = <<2, 3>>
    /\ ret = <<<<3, 3>>>>

(***************************************************************************)
(* C16: ComputerPlayer(player_ID, level) fails iff player_ID is neither 1  *)
(* nor 2; once built its level is max(1, level), a missing level counting  *)
(* as 1, and pick_move scores the moves of that player searching that many *)
(* plies.                                                                  *)
(***************************************************************************)
AtLeastOne(level) ==
    IF level = NoLevel THEN 1 ELSE CHOOSE v \in {1, level} : v >= 1 /\ v >= level

C16_ComputerPlayer ==
    /\ call = "ComputerPlayer"
          => /\ (ret.raised = "AssertionError") <=> (arg_player \notin {1, 2})
             /\ ret.raised \in {"AssertionError", "ok"}
             /\ ret.raised = "ok"
                   => /\ ret.player_ID = arg_player
                      /\ ret.difficulty_level = AtLeastOne(arg_depth)
    /\ call = "pick_move"
          => /\ arg_player \in {1, 2}
             /\ {scores[i] : i \in 1..Len(scores)}
                    = Scores(before, arg_player, AtLeastOne(arg_depth))
             /\ ret = None \/ \E i \in 1..Len(scores) : scores[i][1] = ret

\* A player built with level 0 chose among several moves.
C16_Witness ==
    /\ call = "pick_move"
    /\ arg_depth = 0
    /\ Len(scores) >= 2
    /\ ret # None

(***************************************************************************)
(* C17: get_flipped ends with a result for every board, every on-board     *)
(* coordinate and both players, whatever the cell at the coordinate holds. *)
(***************************************************************************)
C17_GetFlippedEnds ==
    (call \in {"get_flipped", "get_flipped_unending"} /\ InGrid(before, arg_loc)
       /\ arg_player \in {1, 2})
        => call = "get_flipped"

(***************************************************************************)
(* C18: in a game in the window, whenever play buttons are shown or a      *)
(* computer turn is pending the current player has a valid move; after a   *)
(* placement the turn is the opponent's if the opponent has a valid move,  *)
(* else the mover's again if the mover has one, no disc being placed for   *)
(* the pass; victory is declared exactly when neither player has a valid   *)
(* move; pick_move is only called for a player with legal moves and no     *)
(* assertion of _do_computer_turn fails.                                   *)
(***************************************************************************)
Placed == call \in {"click", "computer_turn"}

\* The coordinate the last placement put its disc on.
PlacedOn == IF call = "click" THEN arg_loc ELSE ret

C18_TurnLoop ==
    \E mine \in {LegalMoves(app.board, app.current_player)},
       whites \in {LegalMoves(app.board, 1)},
       blacks \in {LegalMoves(app.board, 2)} :
       /\ app.raised = "ok"
       /\ app.buttons # <<>>
             => /\ mine # {}
                /\ SeqToSet(app.buttons) = mine
                /\ app.players[app.current_player] = Human
       /\ app.scheduled > 0
             => /\ mine # {}
                /\ app.players[app.current_player] # Human
       /\ app.victory <=> (whites = {} /\ blacks = {})
       /\ ~app.victory => (app.buttons # <<>>) # (app.scheduled > 0)
       /\ app.victory => (app.buttons = <<>> /\ app.scheduled = 0)
       /\ Placed
             => \E theirs \in {IF arg_player = 1 THEN blacks ELSE whites},
                   own \in {IF arg_player = 1 THEN whites ELSE blacks} :
                   /\ PlacedOn \in LegalMoves(before, arg_player)
                   /\ app.board = AfterMove(before, PlacedOn, arg_player)
                   /\ theirs # {} => app.current_player = Opponent(arg_player)
                   /\ (theirs = {} /\ own # {}) => app.current_player = arg_player

\* A pass: after a computer's placement the human opponent has no move
\* and the computer is to move again.
C18_Witness ==
    /\ call = "computer_turn"
    /\ app.current_player = arg_player
    /\ app.scheduled > 0
    /\ LegalMoves(app.board, Opponent(arg_player)) = {}
    /\ app.players[Opponent(arg_player)] = Human

(***************************************************************************)
(* C19: every game in the window ends.  Each placement fills exactly one   *)
(* Empty cell and no cell becomes Empty again, so at most size * size - 4  *)
(* discs are placed before victory is declared, and _set_player swaps the  *)
(* turn at most once per call.                                             *)
(***************************************************************************)
GridSize == Len(app.board)

C19_Bounded ==
    /\ app.placements <= GridSize * GridSize - 4
    /\ Count(app.board, 0) = GridSize * GridSize - 4 - app.placements
    /\ app.swaps <= 1

C19_FillsOneCell ==
    \E filled \in {{c \in GridCoords(app.board) :
                      CellAt(app.board, c) = 0 /\ CellAt(app'.board, c) # 0}} :
       /\ Cardinality(filled) = 1
       /\ \A c \in GridCoords(app.board) :
             CellAt(app.board, c) # 0 => CellAt(app'.board, c) # 0
       /\ app'.placements = app.placements + 1

C19_GameEnds ==
    /\ []C19_Bounded
    /\ [][C19_FillsOneCell]_vars
    /\ <>[](app.victory /\ ~Waiting)

\* Victory on a full 4 x 4 board, after the twelfth placement.
C19_Witness ==
    /\ app.victory
    /\ GridSize = Width
    /\ app.placements = Width * Width - 4
    /\ Count(app.board, 0) = 0

(***************************************************************************)
(* C20: the board of the window and the board of the engine stay equal.    *)
(* On every board of a game, for both players, App._get_valid_moves is     *)
(* Othello._get_available_moves; for every legal move App._get_flipped is  *)
(* Othello.get_flipped and the board _place_disc leaves, toggling each     *)
(* captured cell, is the board play_move leaves, setting each to the       *)
(* player; and the board after each placement made is play_move's.         *)
(***************************************************************************)
C20_SameBoards ==
    /\ \A player \in {1, 2} :
          \E moves \in {get_available_moves(app.board, player)} :
             /\ App_get_valid_moves(app.board, player) = moves
             /\ \A i \in 1..Len(moves) :
                   /\ App_get_flipped(app.board, moves[i], player)
                         = get_flipped(app.board, moves[i], player)
                   /\ AppPlaced(app.board, moves[i], player)
                         = play_move(app.board, moves[i], player)
    /\ Placed => app.board = play_move(before, PlacedOn, arg_player)

\* Black's placement turned two or more white discs.
C20_Witness ==
    /\ call = "click"
    /\ arg_player = 2
    /\ Count(app.board, 2) >= Count(before, 2) + 3

(***************************************************************************)
(* C21: play_move on an Empty on-board coordinate changes exactly the cell *)
(* at the coordinate and the cells of get_flipped(coordinate, player), all *)
(* of which end up the player's; every other cell keeps its value, no cell *)
(* becomes Empty, no disc of the player changes owner and the board keeps  *)
(* its size.                                                               *)
(***************************************************************************)
C21_PlayMoveFrame ==
    (call = "play_move" /\ InGrid(before, arg_loc) /\ CellAt(before, arg_loc) = 0)
        => \E touched \in {SeqToSet(get_flipped(before, arg_loc, arg_player))
                              \cup {arg_loc}} :
              /\ Len(board) = Len(before)
              /\ \A r \in 1..Len(before) : Len(board[r]) = Len(before[r])
              /\ \A c \in GridCoords(before) :
                    /\ c \in touched
                          => CellAt(board, c) = arg_player
                             /\ CellAt(before, c) # arg_player
                    /\ c \notin touched => CellAt(board, c) = CellAt(before, c)
                    /\ CellAt(board, c) # 0 \/ CellAt(before, c) = 0
                    /\ CellAt(before, c) = arg_player => CellAt(board, c) = arg_player

\* A capture that left another disc of the opponent and a disc the player
\* already had where they were.
C21_Witness ==
    /\ call = "play_move"
    /\ CellAt(before, arg_loc) = 0
    /\ get_flipped(before, arg_loc, arg_player) # <<>>
    /\ \E c \in GridCoords(before) :
          CellAt(before, c) = Opponent(arg_player) /\ CellAt(board, c) = CellAt(before, c)
    /\ \E c \in GridCoords(before) : CellAt(before, c) = arg_player

====
